---- MODULE Spec2Model ----
(***************************************************************************)
(* Capacity assessment of xpk (src/xpk/core/capacity.py): the reservation  *)
(* hierarchy (reservation -> block -> sub-block), the accelerator matcher, *)
(* the configuration validator, the slice-count calculator and the         *)
(* orchestrator assess_available_slices.                                   *)
(*                                                                         *)
(* Python values are modelled as follows: None is the record None; a       *)
(* dataclass is a record with the dataclass's field names; a list is a     *)
(* sequence; an f-string that joins path segments is the sequence of its   *)
(* segments (two strings are equal iff their segment sequences are); a     *)
(* raised exception is the field exc = TRUE of an outcome record.  Every   *)
(* function that reaches the provider takes and returns the pair st of the *)
(* memo of fetched reservations and the log of accessor calls made so far. *)
(***************************************************************************)
EXTENDS Integers, Sequences, FiniteSets, TLC

\* ------------------------------------------------------------ bounds
MaxLinks == 2
MaxCount == 2
MaxVms == 2
MaxCalls == 2
MaxChips == 2
MaxCode == 2

\* ------------------------------------------------------------ values
None == [tag |-> "None"]

TPU == "TPU"
GPU == "GPU"
CPU == "CPU"

PROJECT == "project"
ZONE == "zone"
PROJECT_NUMBER == "12345"

\* the three link variants; the fields a variant lacks are ""
ReservationLink(project, name, zone) ==
  [kind |-> "reservation", project |-> project, name |-> name, zone |-> zone,
   block_name |-> "", sub_block_name |-> ""]

BlockReservationLink(project, name, zone, block_name) ==
  [kind |-> "block", project |-> project, name |-> name, zone |-> zone,
   block_name |-> block_name, sub_block_name |-> ""]

SubBlockReservationLink(project, name, zone, block_name, sub_block_name) ==
  [kind |-> "sub_block", project |-> project, name |-> name, zone |-> zone,
   block_name |-> block_name, sub_block_name |-> sub_block_name]

ReservationCapacity(reservation, available_slices) ==
  [reservation |-> reservation, available_slices |-> available_slices]

AcceleratorResource(accelerator_type, accelerator_count) ==
  [accelerator_type |-> accelerator_type, accelerator_count |-> accelerator_count]

SpecificReservation(count, in_use_count, machine_type, guest_accelerators) ==
  [count |-> count, in_use_count |-> in_use_count, machine_type |-> machine_type,
   guest_accelerators |-> guest_accelerators]

AggregateReservation(reserved_resources, in_use_resources) ==
  [reserved_resources |-> reserved_resources, in_use_resources |-> in_use_resources]

MockSubBlock(name, count, in_use_count) ==
  [name |-> name, count |-> count, in_use_count |-> in_use_count]

\* f'projects/{project}/zones/{zone}/acceleratorTypes/{accel}'
TargetType(project, zone, accel) ==
  <<"projects", project, "zones", zone, "acceleratorTypes", accel>>

\* a bare identifier such as 'nvidia-test' or 'wrong-type'
Bare(s) == <<s>>

Max(a, b) == IF a >= b THEN a ELSE b

\* mutant of FloorDiv: the quotient of the magnitudes
DivOfMagnitude(n, d) == (IF n >= 0 THEN n ELSE -n) \div d

\* Python's //: floor division, also of a negative numerator (d > 0)
FloorDiv(n, d) == IF n >= 0 THEN n \div d ELSE -(((-n) + d - 1) \div d)

\* mutant of Dedupe: duplicates are kept
NoDedupe(xs) == xs

RECURSIVE DedupeKeepLast(_)
\* mutant of Dedupe: the last occurrence of every element is kept
DedupeKeepLast(xs) ==
  IF xs = <<>> THEN <<>>
  ELSE IF \E i \in 2..Len(xs) : xs[i] = Head(xs)
  THEN DedupeKeepLast(Tail(xs))
  ELSE <<Head(xs)>> \o DedupeKeepLast(Tail(xs))

RECURSIVE Dedupe(_)
\* list(dict.fromkeys(xs)): the first occurrence of every element, in order
Dedupe(xs) ==
  IF xs = <<>> THEN <<>>
  ELSE LET init == Dedupe(SubSeq(xs, 1, Len(xs) - 1))
           last == xs[Len(xs)]
       IN IF \E i \in 1..Len(init) : init[i] = last THEN init ELSE Append(init, last)

\* ------------------------------------------------------------ state
VARIABLES
  provider,   \* what the provider answers: describe, blocks list, sub-blocks list
  cache,      \* get_reservation_cached: reservation name -> fetched record
  dry_run,    \* is_dry_run()
  args,       \* the arguments of assess_available_slices
  ret,        \* what the last call returned (or raised)
  log,        \* the accessor calls of the last call, in order
  calls,      \* number of calls made
  history,    \* per call made: the provider's answers at the call and its return
  cli,        \* get_capacity_type: the user's arguments and what verification answers
  selected,   \* get_capacity_type: what the call returned
  job,        \* wait_for_job_completion: what the cluster's commands answer
  waited      \* wait_for_job_completion: how the call ended

vars == <<provider, cache, dry_run, args, ret, log, calls, history, cli, selected, job, waited>>

\* thread of one call: the memo and the accessor calls made so far
St(c, l) == [cache |-> c, log |-> l]

Logged(st, event) == St(st.cache, Append(st.log, event))

\* ------------------------------------------------------------ accessor
\* get_reservation: the record of the link's reservation (None when the fetch
\* fails), fetched from the provider once per reservation name and memoized
get_reservation(link, st) ==
  IF link.name \in DOMAIN st.cache
  THEN [val |-> st.cache[link.name], st |-> st]
  ELSE LET r == provider.describe[link.name]
       IN [val |-> r,
           st |-> St(st.cache @@ (link.name :> r),
                     Append(st.log, <<"describe", link.name>>))]

\* get_blocks_in_reservation: (block links, return code)
get_blocks_in_reservation(link, st) ==
  LET b == provider.blocks[link.name]
  IN [blocks |-> IF b.rc # 0 THEN <<>>
                 ELSE [i \in 1..Len(b.names) |->
                        BlockReservationLink(link.project, link.name, link.zone, b.names[i])],
      rc |-> b.rc,
      st |-> Logged(st, <<"list_blocks", link.name>>)]

\* list_healthy_sub_blocks: (sub-block infos, return code) of a block link, or of
\* a sub-block link (the block's listing filtered by the sub-block's name)
list_healthy_sub_blocks(link, st) ==
  LET l == provider.sub_blocks[<<link.name, link.block_name>>]
      Wanted(sb) == link.kind = "block" \/ sb.name = link.sub_block_name
      listed == IF l.rc # 0 THEN <<>> ELSE SelectSeq(l.sub_blocks, Wanted)
  IN [sub_blocks |-> [i \in 1..Len(listed) |->
                       [link |-> SubBlockReservationLink(link.project, link.name, link.zone,
                                                         link.block_name, listed[i].name),
                        count |-> listed[i].count,
                        in_use_count |-> listed[i].in_use_count]],
      rc |-> l.rc,
      st |-> Logged(st, <<"list_healthy_sub_blocks", link.name, link.block_name,
                          link.sub_block_name>>)]

\* project_id_to_project_number
project_id_to_project_number(project, st) ==
  [val |-> IF project = PROJECT THEN PROJECT_NUMBER ELSE project,
   st |-> Logged(st, <<"resolve_project_number", project>>)]

\* get_reservation_accelerator_type: the identifier reservations use for the
\* system's accelerator ("" when the system has none)
get_reservation_accelerator_type(system) == system.reservation_accelerator_type

\* ------------------------------------------------------------ matcher
\* mutant of FirstMatch: only the first resource of the list is compared
FirstEntryMatch(resources, type) ==
  IF resources # <<>> /\ resources[1].accelerator_type = type THEN resources[1] ELSE None

\* the first resource of the list with this identifier, or None
FirstMatch(resources, type) ==
  LET hits == {i \in 1..Len(resources) : resources[i].accelerator_type = type}
  IN IF hits = {} THEN None
     ELSE resources[CHOOSE i \in hits : \A j \in hits : i <= j]

\* mutant of _find_matching_accelerator_resource: the project number is resolved
\* and tried before the project-string form
FindMatchingNumberFirst(reservation, system, st) ==
  LET reservation_accelerator_type == get_reservation_accelerator_type(system)
  IN IF reservation_accelerator_type = ""
     THEN [val |-> None, exc |-> TRUE, st |-> st]
     ELSE IF reservation.aggregate_reservation = None
     THEN [val |-> None, exc |-> FALSE, st |-> st]
     ELSE
       LET reserved_resources == reservation.aggregate_reservation.reserved_resources
       IN IF system.accelerator_type = TPU
          THEN LET target_type_id == TargetType(reservation.link.project,
                                                reservation.link.zone,
                                                reservation_accelerator_type)
                   TryId(by_number, pn) ==
                     IF by_number # None
                     THEN [val |-> by_number, exc |-> FALSE, st |-> pn.st]
                     ELSE [val |-> FirstMatch(reserved_resources, target_type_id),
                           exc |-> FALSE, st |-> pn.st]
                   TryNumber(pn) ==
                     TryId(FirstMatch(reserved_resources,
                                      TargetType(pn.val, reservation.link.zone,
                                                 reservation_accelerator_type)), pn)
               IN TryNumber(project_id_to_project_number(reservation.link.project, st))
          ELSE [val |-> FirstMatch(reserved_resources, Bare(reservation_accelerator_type)),
                exc |-> FALSE, st |-> st]

\* outcome [val, exc, st]: the matching resource or None; exc when the assertion
\* on the system's accelerator identifier fails
_find_matching_accelerator_resource(reservation, system, st) ==
  LET reservation_accelerator_type == get_reservation_accelerator_type(system)
  IN IF reservation_accelerator_type = ""
     THEN [val |-> None, exc |-> TRUE, st |-> st]
     ELSE IF reservation.aggregate_reservation = None
     THEN [val |-> None, exc |-> FALSE, st |-> st]
     ELSE
       LET reserved_resources == reservation.aggregate_reservation.reserved_resources
       IN IF system.accelerator_type = TPU
          THEN LET target_type_id == TargetType(reservation.link.project,
                                                reservation.link.zone,
                                                reservation_accelerator_type)
                   TryNumber(pn) ==
                     LET target_type_number == TargetType(pn.val, reservation.link.zone,
                                                          reservation_accelerator_type)
                     IN [val |-> FirstMatch(reserved_resources, target_type_number),
                         exc |-> FALSE, st |-> pn.st]
                   TryId(by_id) ==
                     IF by_id # None
                     THEN [val |-> by_id, exc |-> FALSE, st |-> st]
                     ELSE TryNumber(project_id_to_project_number(reservation.link.project, st))
               IN TryId(FirstMatch(reserved_resources, target_type_id))
          ELSE [val |-> FirstMatch(reserved_resources, Bare(reservation_accelerator_type)),
                exc |-> FALSE, st |-> st]

\* ------------------------------------------------------------ validator
\* mutant of ChecksMachineType: CPU reservations are not checked
ChecksMachineTypeTpuOnly(system) == system.accelerator_type = TPU

\* the systems whose specific reservations are checked by machine type
ChecksMachineType(system) ==
  system.accelerator_type = TPU \/ system.accelerator_type = CPU

\* mutant of HasMatchingAccelerator: only the first guest accelerator is compared
FirstGuestAcceleratorMatches(guest_accelerators, target_accel) ==
  guest_accelerators # <<>> /\ guest_accelerators[1].accelerator_type = Bare(target_accel)

\* any(acc.accelerator_type == target_accel for acc in guest_accelerators)
HasMatchingAccelerator(guest_accelerators, target_accel) ==
  \E i \in 1..Len(guest_accelerators) :
     guest_accelerators[i].accelerator_type = Bare(target_accel)

\* mutant of NoMatchingResource: an aggregate reservation is never rejected
NeverRejected(matching_resource) == FALSE

\* if not matching_resource: the aggregate reservation is rejected
NoMatchingResource(matching_resource) == matching_resource = None

\* is_dry_run(): the execution mode of the process
is_dry_run == dry_run

\* mutant of ShortCircuited: the validator does not consult the execution mode
NeverShortCircuited == FALSE

\* if is_dry_run(): return True
ShortCircuited == is_dry_run

\* outcome [ok, exc, st]
_verify_reservation_configuration(reservation, system, st) ==
  IF ShortCircuited THEN [ok |-> TRUE, exc |-> FALSE, st |-> st]
  ELSE IF reservation.specific_reservation # None
  THEN IF ChecksMachineType(system)
       THEN [ok |-> reservation.specific_reservation.machine_type = system.gce_machine_type,
             exc |-> FALSE, st |-> st]
       ELSE IF system.accelerator_type = GPU
       THEN LET target_accel == get_reservation_accelerator_type(system)
            IN [ok |-> HasMatchingAccelerator(
                         reservation.specific_reservation.guest_accelerators,
                         target_accel),
                exc |-> FALSE, st |-> st]
       ELSE [ok |-> TRUE, exc |-> FALSE, st |-> st]
  ELSE IF reservation.aggregate_reservation # None
  THEN LET Matched(m) == [ok |-> ~m.exc /\ ~NoMatchingResource(m.val), exc |-> m.exc,
                          st |-> m.st]
       IN Matched(_find_matching_accelerator_resource(reservation, system, st))
  ELSE [ok |-> TRUE, exc |-> FALSE, st |-> st]

\* ------------------------------------------------------------ calculator
\* mutant of InUseCount: the first in-use entry, whatever its identifier
InUseCountOfFirstEntry(in_use_resources, type) ==
  IF in_use_resources = <<>> THEN 0 ELSE in_use_resources[1].accelerator_count

\* next((r.accelerator_count for r in in_use_resources if r.accelerator_type == t), 0)
InUseCount(in_use_resources, type) ==
  LET Found(r) == IF r = None THEN 0 ELSE r.accelerator_count
  IN Found(FirstMatch(in_use_resources, type))

\* mutant of SlicesOf: the free count is not clamped at 0
SlicesOfUnclamped(count, in_use_count, divisor) ==
  FloorDiv(count - in_use_count, divisor)

\* available_hosts = max(0, count - in_use_count); available_hosts // divisor
SlicesOf(count, in_use_count, divisor) ==
  LET available_hosts == Max(0, count - in_use_count)
  IN FloorDiv(available_hosts, divisor)

\* outcome [count, rc, exc, st]; exc when assert matching_resource fails
_get_reservation_slices_count(reservation_link, system, vms_per_slice, st) ==
  LET Matched(reservation, m) ==
        IF m.exc \/ m.val = None
        THEN [count |-> 0, rc |-> 0, exc |-> TRUE, st |-> m.st]
        ELSE LET matching_resource == m.val
                 count == matching_resource.accelerator_count
                 in_use_count ==
                   InUseCount(reservation.aggregate_reservation.in_use_resources,
                              matching_resource.accelerator_type)
                 divisor == vms_per_slice * system.chips_per_vm
             IN [count |-> SlicesOf(count, in_use_count, divisor), rc |-> 0,
                 exc |-> FALSE, st |-> m.st]
      Fetched(g) ==
        LET reservation == g.val
        IN IF reservation = None
           THEN [count |-> 0, rc |-> 1, exc |-> FALSE, st |-> g.st]
           ELSE IF reservation.specific_reservation # None
           THEN LET count == reservation.specific_reservation.count
                    in_use_count == reservation.specific_reservation.in_use_count
                    divisor == vms_per_slice
                IN [count |-> SlicesOf(count, in_use_count, divisor), rc |-> 0,
                    exc |-> FALSE, st |-> g.st]
           ELSE IF reservation.aggregate_reservation # None
           THEN Matched(reservation,
                        _find_matching_accelerator_resource(reservation, system, g.st))
           ELSE [count |-> SlicesOf(0, 0, 1), rc |-> 0, exc |-> FALSE, st |-> g.st]
  IN Fetched(get_reservation(reservation_link, st))

\* ------------------------------------------------------------ sub-blocks
\* mutant of NothingListed: only a failed listing ends the step early
ListingFailed(sub_blocks, return_code) == return_code # 0

\* if return_code != 0 or not sub_blocks
NothingListed(sub_blocks, return_code) == return_code # 0 \/ sub_blocks = <<>>

\* outcome [slices, rc, exc, st]; exc when assert len(sub_blocks) == 1 fails
_get_available_slices_in_sub_block(reservation, required_hosts, st) ==
  LET Listed(l) ==
        LET sub_blocks == l.sub_blocks
        IN IF NothingListed(sub_blocks, l.rc)
           THEN [slices |-> 0, rc |-> l.rc, exc |-> FALSE, st |-> l.st]
           ELSE IF Len(sub_blocks) # 1
           THEN [slices |-> 0, rc |-> 0, exc |-> TRUE, st |-> l.st]
           ELSE LET sub_block == sub_blocks[1]
                IN [slices |-> FloorDiv(sub_block.count - sub_block.in_use_count,
                                        required_hosts),
                    rc |-> 0, exc |-> FALSE, st |-> l.st]
  IN Listed(list_healthy_sub_blocks(reservation, st))

\* mutant of Fitting: entries with 0 slices are kept
FittingOrEmpty(available_capacities) ==
  LET NonNegative(capacity) == capacity.available_slices >= 0
  IN SelectSeq(available_capacities, NonNegative)

\* [capacity for capacity in available_capacities if capacity.available_slices > 0]
Fitting(available_capacities) ==
  LET Positive(capacity) == capacity.available_slices > 0
  IN SelectSeq(available_capacities, Positive)

\* outcome [caps, rc, exc, st]
_get_healthy_and_fitting_sub_blocks_in_block(reservation, required_hosts, st) ==
  LET Listed(l) ==
        LET sub_blocks == l.sub_blocks
        IN IF l.rc # 0
           THEN [caps |-> <<>>, rc |-> l.rc, exc |-> FALSE, st |-> l.st]
           ELSE LET available_capacities ==
                      [i \in 1..Len(sub_blocks) |->
                        ReservationCapacity(
                          sub_blocks[i].link,
                          FloorDiv(sub_blocks[i].count - sub_blocks[i].in_use_count,
                                   required_hosts))]
                IN [caps |-> Fitting(available_capacities), rc |-> 0, exc |-> FALSE,
                    st |-> l.st]
  IN Listed(list_healthy_sub_blocks(reservation, st))

\* ------------------------------------------------------------ orchestrator
\* An outcome [caps, rc, exc, st] is a return of (caps, rc) when exc is FALSE and
\* a raised AssertionError (nothing is returned) when exc is TRUE.
Return(caps, rc, st) == [caps |-> caps, rc |-> rc, exc |-> FALSE, st |-> st]

Raise(st) == [caps |-> <<>>, rc |-> 0, exc |-> TRUE, st |-> st]

\* mutant of FailFast: a failure returns what was accumulated so far
FailPartial(reservation_capacities, return_code, st) ==
  Return(reservation_capacities, return_code, st)

\* return [], return_code: a failure drops what the earlier links contributed
FailFast(reservation_capacities, return_code, st) == Return(<<>>, return_code, st)

\* mutant of NoCapacity: an empty contribution is an error in every call
NoCapacityEverywhere(capacities, validate_reservations) == capacities = <<>>

\* if not capacities and validate_reservations
NoCapacity(capacities, validate_reservations) ==
  capacities = <<>> /\ validate_reservations

RECURSIVE assess_available_slices(_, _, _, _, _, _)
RECURSIVE AssessFrom(_, _, _, _, _, _, _, _)

\* mutant of BlockRecursion: the block links are validated like caller-supplied
\* links
BlockRecursionValidated(blocks, force_sub_block_targeting, system, vms_per_slice, st) ==
  assess_available_slices(blocks, force_sub_block_targeting, system, vms_per_slice, TRUE, st)

\* mutant of BlockRecursion: the nested call re-enters itself once more over the
\* same block links
BlockRecursionTwice(blocks, force_sub_block_targeting, system, vms_per_slice, st) ==
  LET Left(r) == [r EXCEPT !.st = Logged(r.st, <<"leave", blocks[1].name>>)]
  IN Left(assess_available_slices(blocks, force_sub_block_targeting, system,
                                  vms_per_slice, FALSE,
                                  Logged(st, <<"recurse", blocks[1].name>>)))

\* the recursive call over the block links of a reservation, validate_reservations
\* = False
BlockRecursion(blocks, force_sub_block_targeting, system, vms_per_slice, st) ==
  assess_available_slices(blocks, force_sub_block_targeting, system, vms_per_slice, FALSE, st)

\* mutant of WholeReservation: the entry carries the link of the parent
\* reservation
WholeReservationOfParent(reservation, system, vms_per_slice, st) ==
  LET parent == ReservationLink(reservation.project, reservation.name, reservation.zone)
      Counted(c) ==
        IF c.exc THEN Raise(c.st)
        ELSE IF c.rc # 0 THEN Return(<<>>, c.rc, c.st)
        ELSE Return(IF c.count > 0
                    THEN <<ReservationCapacity(parent, c.count)>>
                    ELSE <<>>, 0, c.st)
  IN Counted(_get_reservation_slices_count(reservation, system, vms_per_slice, st))

\* lines 298-307, whole-reservation accounting: one entry for the link iff the
\* record's slice count is > 0
WholeReservation(reservation, system, vms_per_slice, st) ==
  LET Counted(c) ==
        IF c.exc THEN Raise(c.st)
        ELSE IF c.rc # 0 THEN Return(<<>>, c.rc, c.st)
        ELSE Return(IF c.count > 0
                    THEN <<ReservationCapacity(reservation, c.count)>>
                    ELSE <<>>, 0, c.st)
  IN Counted(_get_reservation_slices_count(reservation, system, vms_per_slice, st))

\* mutant of NoBlocks: a flattened reservation without blocks is accounted as a
\* whole
NoBlocksFallsThrough(reservation, system, vms_per_slice, st) ==
  WholeReservation(reservation, system, vms_per_slice, st)

\* line 296, a flattened reservation link without blocks: return [], 0
NoBlocks(reservation, system, vms_per_slice, st) == Return(<<>>, 0, st)

\* the log records where assess_available_slices re-enters itself ("recurse")
\* and where the nested call ends ("leave")
_assess_available_slices_for_reservation(reservation, force_sub_block_targeting, system, vms_per_slice, st) ==
  LET Left(r) == [r EXCEPT !.st = Logged(r.st, <<"leave", reservation.name>>)]
      SubBlock(s) ==
        IF s.exc THEN Raise(s.st)
        ELSE IF s.rc # 0 THEN Return(<<>>, 1, s.st)
        ELSE IF s.slices > 0
        THEN Return(<<ReservationCapacity(reservation, s.slices)>>, 0, s.st)
        ELSE Return(<<>>, 0, s.st)
      Blocks(b) ==
        IF b.rc # 0 THEN Return(<<>>, b.rc, b.st)
        ELSE IF b.blocks # <<>>
        THEN Left(BlockRecursion(b.blocks, force_sub_block_targeting, system,
                                 vms_per_slice,
                                 Logged(b.st, <<"recurse", reservation.name>>)))
        ELSE NoBlocks(reservation, system, vms_per_slice, b.st)
  IN IF reservation.kind = "sub_block"
     THEN SubBlock(_get_available_slices_in_sub_block(reservation, vms_per_slice, st))
     ELSE IF force_sub_block_targeting
     THEN IF reservation.kind = "block"
          THEN _get_healthy_and_fitting_sub_blocks_in_block(reservation, vms_per_slice, st)
          ELSE Blocks(get_blocks_in_reservation(reservation, st))
     ELSE WholeReservation(reservation, system, vms_per_slice, st)

\* mutant of ValidateLink: a reservation whose record is already memoized is not
\* verified again
ValidateLinkOnFirstFetch(reservation, system, st) ==
  LET Verified(v) ==
        [rc |-> IF ~v.exc /\ ~v.ok THEN 1 ELSE 0, exc |-> v.exc, st |-> v.st]
      Fetched(g) ==
        LET parent_reservation == g.val
        IN IF parent_reservation = None
           THEN [rc |-> 1, exc |-> FALSE, st |-> g.st]
           ELSE IF reservation.name \in DOMAIN st.cache
           THEN [rc |-> 0, exc |-> FALSE, st |-> g.st]
           ELSE Verified(_verify_reservation_configuration(
                           parent_reservation, system,
                           Logged(g.st, <<"validate", reservation.name, reservation.block_name,
                                          reservation.sub_block_name>>)))
  IN Fetched(get_reservation(reservation, st))

\* lines 219-227: the fetch and validation of one caller-supplied link;
\* outcome [rc, exc, st]
ValidateLink(reservation, system, st) ==
  LET Verified(v) ==
        [rc |-> IF ~v.exc /\ ~v.ok THEN 1 ELSE 0, exc |-> v.exc, st |-> v.st]
      Fetched(g) ==
        LET parent_reservation == g.val
        IN IF parent_reservation = None
           THEN [rc |-> 1, exc |-> FALSE, st |-> g.st]
           ELSE Verified(_verify_reservation_configuration(
                           parent_reservation, system,
                           Logged(g.st, <<"validate", reservation.name, reservation.block_name,
                                          reservation.sub_block_name>>)))
  IN Fetched(get_reservation(reservation, st))

RECURSIVE AssessFromContinuing(_, _, _, _, _, _, _, _)

\* mutant of AssessFrom: after a failing link the loop goes on over the
\* remaining links, then returns the first failure
AssessFromContinuing(reservations, i, reservation_capacities, force_sub_block_targeting, system, vms_per_slice, validate_reservations, st) ==
  IF i > Len(reservations)
  THEN Return(Dedupe(reservation_capacities), 0, st)
  ELSE
    LET reservation == reservations[i]
        Rest(capacities, st2) ==
          AssessFromContinuing(reservations, i + 1, capacities,
                               force_sub_block_targeting, system, vms_per_slice,
                               validate_reservations, st2)
        Failed(return_code, rest) ==
          IF rest.exc THEN Raise(rest.st) ELSE Return(<<>>, return_code, rest.st)
        Assessed(a) ==
          IF a.exc THEN Raise(a.st)
          ELSE IF a.rc # 0 THEN Failed(a.rc, Rest(reservation_capacities, a.st))
          ELSE IF NoCapacity(a.caps, validate_reservations)
          THEN Failed(1, Rest(reservation_capacities, a.st))
          ELSE Rest(reservation_capacities \o a.caps, a.st)
        Validated(v) ==
          IF v.exc THEN Raise(v.st)
          ELSE IF v.rc # 0 THEN Failed(1, Rest(reservation_capacities, v.st))
          ELSE Assessed(_assess_available_slices_for_reservation(
                          reservation, force_sub_block_targeting, system, vms_per_slice,
                          v.st))
    IN Validated(IF validate_reservations
                 THEN ValidateLink(reservation, system, st)
                 ELSE [rc |-> 0, exc |-> FALSE, st |-> st])

\* the iterations i.. of the for loop with the result accumulated so far, then
\* the de-duplication and the return
AssessFrom(reservations, i, reservation_capacities, force_sub_block_targeting, system, vms_per_slice, validate_reservations, st) ==
  IF i > Len(reservations)
  THEN Return(Dedupe(reservation_capacities), 0, st)
  ELSE
    LET reservation == reservations[i]
        Assessed(a) ==
          IF a.exc THEN Raise(a.st)
          ELSE IF a.rc # 0 THEN FailFast(reservation_capacities, a.rc, a.st)
          ELSE IF NoCapacity(a.caps, validate_reservations)
          THEN FailFast(reservation_capacities, 1, a.st)
          ELSE AssessFrom(reservations, i + 1, reservation_capacities \o a.caps,
                          force_sub_block_targeting, system, vms_per_slice,
                          validate_reservations, a.st)
        Validated(v) ==
          IF v.exc THEN Raise(v.st)
          ELSE IF v.rc # 0 THEN FailFast(reservation_capacities, 1, v.st)
          ELSE Assessed(_assess_available_slices_for_reservation(
                          reservation, force_sub_block_targeting, system, vms_per_slice,
                          v.st))
    IN Validated(IF validate_reservations
                 THEN ValidateLink(reservation, system, st)
                 ELSE [rc |-> 0, exc |-> FALSE, st |-> st])

assess_available_slices(reservations, force_sub_block_targeting, system, vms_per_slice, validate_reservations, st) ==
  AssessFrom(reservations, 1, <<>>, force_sub_block_targeting, system, vms_per_slice,
             validate_reservations, st)

\* ------------------------------------------------------------ capacity type
ON_DEMAND == "on_demand"
RESERVATION == "reservation"
SPOT == "spot"
UNKNOWN == "unknown"
FLEX_START == "flex_start"

\* verify_reservations_exist: the code of the verification of the reservations
\* named by the arguments
verify_reservations_exist(a) == cli.verified

\* mutant of TooMany: two capacity arguments are accepted
MoreThanTwo(num_types) == num_types > 2

\* elif num_types != 1 (after num_types == 0)
TooMany(num_types) == num_types # 1

\* outcome [capacity_type, return_code]; a string argument is set when it is
\* not empty
get_capacity_type(a) ==
  LET type1 == IF a.on_demand THEN ON_DEMAND ELSE UNKNOWN
      num1 == IF a.on_demand THEN 1 ELSE 0
      Rest(return_code) ==
        LET reserved == a.reservation # ""
            type2 == IF reserved THEN RESERVATION ELSE type1
            num2 == IF reserved THEN num1 + 1 ELSE num1
            type3 == IF a.spot THEN SPOT ELSE type2
            num3 == IF a.spot THEN num2 + 1 ELSE num2
            type4 == IF a.flex THEN FLEX_START ELSE type3
            num4 == IF a.flex THEN num3 + 1 ELSE num3
        IN IF num4 = 0
           THEN [capacity_type |-> UNKNOWN, return_code |-> return_code]
           ELSE IF TooMany(num4)
           THEN [capacity_type |-> type4, return_code |-> 1]
           ELSE [capacity_type |-> type4, return_code |-> return_code]
      Verified(return_code) ==
        IF return_code > 0
        THEN [capacity_type |-> type1, return_code |-> return_code]
        ELSE Rest(return_code)
  IN IF a.reservation # ""
     THEN Verified(verify_reservations_exist(a))
     ELSE Rest(0)

\* ------------------------------------------------------------ workload
\* run_command_for_value answers (return_code, return_value); an output is the
\* sequence of its words
Command(return_code, return_value) ==
  [return_code |-> return_code, return_value |-> return_value]

\* 'timed out' in return_value
TimedOutIn(return_value) ==
  \E i \in 1..(Len(return_value) - 1) :
     return_value[i] = "timed" /\ return_value[i + 1] = "out"

\* how a call ends: a returned code, or xpk_exit(code)
Returns(code) == [kind |-> "return", code |-> code]

Exits(code) == [kind |-> "exit", code |-> code]

\* outcome [exits, code, exists]: exits with the code of a failed listing, else
\* whether a line of the listing is the workload's name
check_if_workload_exists(workload) ==
  IF job.list.return_code # 0
  THEN [exits |-> TRUE, code |-> job.list.return_code, exists |-> FALSE]
  ELSE [exits |-> FALSE, code |-> 0,
        exists |-> \E i \in 1..Len(job.list.return_value) :
                      job.list.return_value[i] = workload]

\* if return_value != 'Completed': return 125; return 0
StatusCode(return_value) == IF return_value # <<"Completed">> THEN 125 ELSE 0

\* the code returned when the wait command failed
WaitFailure(return_code, return_value) ==
  IF TimedOutIn(return_value) THEN 124 ELSE return_code

wait_for_job_completion(workload) ==
  LET Status(c) ==
        IF c.return_code # 0 THEN Returns(c.return_code)
        ELSE Returns(StatusCode(c.return_value))
      Wait(c) ==
        IF c.return_code # 0 THEN Returns(WaitFailure(c.return_code, c.return_value))
        ELSE Status(job.status)
      Name(c) ==
        IF c.return_code # 0 THEN Returns(c.return_code)
        ELSE Wait(job.wait)
      Exists(e) ==
        IF e.exits THEN Exits(e.code)
        ELSE IF ~e.exists THEN Returns(1)
        ELSE Name(job.name)
  IN Exists(check_if_workload_exists(workload))

\* ------------------------------------------------------------ the world
Reservation(link, specific_reservation, aggregate_reservation) ==
  [link |-> link, specific_reservation |-> specific_reservation,
   aggregate_reservation |-> aggregate_reservation]

SystemCharacteristics(accelerator_type, gce_machine_type, chips_per_vm, reservation_accelerator_type) ==
  [accelerator_type |-> accelerator_type, gce_machine_type |-> gce_machine_type,
   chips_per_vm |-> chips_per_vm,
   reservation_accelerator_type |-> reservation_accelerator_type]

TpuSystem(chips_per_vm) == SystemCharacteristics(TPU, "test-machine", chips_per_vm, "test-accel")
GpuSystem == SystemCharacteristics(GPU, "g2-standard-12", 1, "nvidia-test")
CpuSystem == SystemCharacteristics(CPU, "test-machine", 1, "")

R1 == ReservationLink(PROJECT, "r1", ZONE)
R2 == ReservationLink(PROJECT, "r2", ZONE)
B1 == BlockReservationLink(PROJECT, "r1", ZONE, "b1")
B2 == BlockReservationLink(PROJECT, "r1", ZONE, "b2")
S11 == SubBlockReservationLink(PROJECT, "r1", ZONE, "b1", "s1")
S12 == SubBlockReservationLink(PROJECT, "r1", ZONE, "b1", "s2")
S23 == SubBlockReservationLink(PROJECT, "r1", ZONE, "b2", "s3")

SeqsUpTo(S, n) == UNION {[1..k -> S] : k \in 0..n}

Args(reservations, force_sub_block_targeting, system, vms_per_slice, validate_reservations) ==
  [reservations |-> reservations,
   force_sub_block_targeting |-> force_sub_block_targeting,
   system |-> system, vms_per_slice |-> vms_per_slice,
   validate_reservations |-> validate_reservations]

Specific(count, in_use_count, machine_type) ==
  SpecificReservation(count, in_use_count, machine_type, <<>>)

\* (count, in_use_count) of a listed sub-block: free, full, over-used
SubCounts == {<<MaxCount, 0>>, <<1, 1>>, <<0, 1>>}

\* the listings of block b1: a failed listing, no healthy sub-block, s1 alone,
\* s1 then s2, A(4,1), B(6,1), and two records under the name s1
Listings ==
  {[rc |-> 2, sub_blocks |-> <<>>], [rc |-> 0, sub_blocks |-> <<>>],
   [rc |-> 0, sub_blocks |-> <<MockSubBlock("s1", MaxCount, 0), MockSubBlock("s1", 1, 1)>>],
   [rc |-> 0, sub_blocks |-> <<MockSubBlock("s1", 4, 1), MockSubBlock("s2", 6, 1)>>]}
  \cup {[rc |-> 0, sub_blocks |-> <<MockSubBlock("s1", x[1], x[2])>>] : x \in SubCounts}
  \cup {[rc |-> 0, sub_blocks |-> <<MockSubBlock("s1", x[1], x[2]),
                                    MockSubBlock("s2", y[1], y[2])>>] :
          x \in SubCounts, y \in {<<MaxCount, 0>>, <<0, 1>>}}

BlockLists ==
  {[rc |-> 2, names |-> <<>>], [rc |-> 0, names |-> <<>>],
   [rc |-> 0, names |-> <<"b1">>], [rc |-> 0, names |-> <<"b1", "b2">>]}

\* the hierarchy family: one good reservation r1 with every shape of blocks and
\* sub-blocks, a second reservation r2 that is missing, good or mismatched
HierProviders ==
  {[describe |-> ("r1" :> Reservation(R1, Specific(MaxCount, 1, "test-machine"), None))
                 @@ ("r2" :> d2),
    blocks |-> ("r1" :> bl) @@ ("r2" :> [rc |-> 0, names |-> <<>>]),
    sub_blocks |-> (<<"r1", "b1">> :> l)
                   @@ (<<"r1", "b2">> :>
                        [rc |-> 0, sub_blocks |-> <<MockSubBlock("s3", MaxCount, 0)>>])] :
     d2 \in {None, Reservation(R2, Specific(MaxCount, 0, "test-machine"), None),
             Reservation(R2, Specific(MaxCount, 0, "wrong-machine"), None)},
     bl \in BlockLists, l \in Listings}

HierArgs ==
  {Args(rs, f, TpuSystem(1), v, val) :
     rs \in SeqsUpTo({R1, B1, S11, R2}, MaxLinks), f \in BOOLEAN, v \in 1..MaxVms,
     val \in BOOLEAN}

\* link l is among the links of the call
Has(reservations, l) == \E i \in 1..Len(reservations) : reservations[i] = l

\* a provider with the arguments of a call; what no link of the call can reach
\* (r2's record without R2, the block list without a flattened R1, the listing
\* of b1 without S11 or a flattened B1 or R1) is left at its empty answer
HierWorlds ==
  {w \in [provider : HierProviders, args : HierArgs] :
     LET rs == w.args.reservations
         force == w.args.force_sub_block_targeting
     IN /\ Has(rs, R2) \/ w.provider.describe["r2"] = None
        /\ (force /\ Has(rs, R1)) \/ w.provider.blocks["r1"] = [rc |-> 0, names |-> <<>>]
        /\ Has(rs, S11) \/ (force /\ (Has(rs, B1) \/ Has(rs, R1)))
           \/ w.provider.sub_blocks[<<"r1", "b1">>] = [rc |-> 0, sub_blocks |-> <<>>]}

\* the accelerator identifiers that occur in aggregate reservations
IdType == TargetType(PROJECT, ZONE, "test-accel")
NumberType == TargetType(PROJECT_NUMBER, ZONE, "test-accel")
OtherZoneType == TargetType(PROJECT, "other-zone", "test-accel")
GpuType == Bare("nvidia-test")
WrongType == Bare("wrong-type")
QualifiedGpuType == TargetType(PROJECT, ZONE, "nvidia-test")

Chips == MaxChips * MaxCount

ReservedLists ==
  {<<AcceleratorResource(t, Chips)>> : t \in {IdType, NumberType, GpuType, WrongType,
                                              OtherZoneType, QualifiedGpuType}}
  \cup {<<AcceleratorResource(WrongType, Chips), AcceleratorResource(t, Chips)>> :
          t \in {IdType, NumberType, GpuType}}
  \cup {<<AcceleratorResource(NumberType, 1), AcceleratorResource(IdType, Chips)>>,
        <<AcceleratorResource(IdType, Chips), AcceleratorResource(IdType, 1)>>}

InUseLists ==
  {<<>>, <<AcceleratorResource(WrongType, 1)>>}
  \cup {<<AcceleratorResource(t, u)>> : t \in {IdType, NumberType, GpuType},
                                        u \in {1, Chips + 1}}
  \cup {<<AcceleratorResource(WrongType, Chips), AcceleratorResource(t, 1)>> :
          t \in {IdType, NumberType, GpuType}}
  \cup {<<AcceleratorResource(t, 1), AcceleratorResource(t, Chips)>> :
          t \in {IdType, NumberType, GpuType}}

GuestLists ==
  {<<AcceleratorResource(WrongType, 1)>>, <<AcceleratorResource(GpuType, 1)>>,
   <<AcceleratorResource(QualifiedGpuType, 1)>>,
   <<AcceleratorResource(WrongType, 1), AcceleratorResource(GpuType, 1)>>}

\* the records of reservation r1 in the record family: a failed fetch, no
\* payload, specific payloads and aggregate payloads
Records ==
  {None, Reservation(R1, None, None)}
  \cup {Reservation(R1, Specific(c, u, m), None) :
          c \in 0..MaxCount, u \in 0..MaxCount, m \in {"test-machine", "wrong-machine"}}
  \cup {Reservation(R1, SpecificReservation(MaxCount, 0, m, g), None) :
          m \in {"test-machine", "g2-standard-12"}, g \in GuestLists}
  \cup {Reservation(R1, None, AggregateReservation(rr, iu)) :
          rr \in ReservedLists, iu \in InUseLists}

RecordProviders ==
  {[describe |-> ("r1" :> d) @@ ("r2" :> None),
    blocks |-> ("r1" :> [rc |-> 0, names |-> <<>>]) @@ ("r2" :> [rc |-> 0, names |-> <<>>]),
    sub_blocks |-> (<<"r1", "b1">> :>
                     [rc |-> 0, sub_blocks |-> <<MockSubBlock("s1", MaxCount, 0)>>])
                   @@ (<<"r1", "b2">> :> [rc |-> 0, sub_blocks |-> <<>>])] :
     d \in Records}

Systems == {TpuSystem(c) : c \in 1..MaxChips} \cup {GpuSystem, CpuSystem}

RecordArgs ==
  {Args(<<l>>, f, sys, v, val) :
     l \in {R1, B1}, f \in BOOLEAN, sys \in Systems, v \in 1..MaxVms, val \in BOOLEAN}

RecordWorlds == [provider : RecordProviders, args : RecordArgs]

NoReturn == [caps |-> <<>>, rc |-> 0, exc |-> FALSE]

\* the user's capacity arguments: --on-demand, --reservation (unset, one name,
\* two names separated by a comma), --spot, --flex
CapacityArgs ==
  [on_demand : BOOLEAN, reservation : {"", "res1", "res1,res2"}, spot : BOOLEAN,
   flex : BOOLEAN]

NoCapacityArgs == [on_demand |-> FALSE, reservation |-> "", spot |-> FALSE, flex |-> FALSE]

NotSelected == [capacity_type |-> "", return_code |-> 0]

\* no call of get_capacity_type is modelled
NoSelection == cli = [args |-> NoCapacityArgs, verified |-> 0] /\ selected = NotSelected

\* the codes a command of the cluster may exit with
Codes == 0..MaxCode

\* the listing of workloads: the awaited workload "job" is listed or not
WorkloadListings == {<<"other">>, <<"other", "job">>}

\* the output of the wait command
WaitOutputs == {<<>>, <<"error:", "timed", "out", "waiting">>, <<"error:", "not", "found">>}

\* the last condition of the jobset
Statuses == {<<"Completed">>, <<"Failed">>}

Jobs ==
  [list : {Command(c, l) : c \in Codes, l \in WorkloadListings},
   name : {Command(c, <<"jobset-job">>) : c \in Codes},
   wait : {Command(c, o) : c \in Codes, o \in WaitOutputs},
   status : {Command(c, s) : c \in Codes, s \in Statuses}]

NoJob ==
  [list |-> Command(0, <<>>), name |-> Command(0, <<>>), wait |-> Command(0, <<>>),
   status |-> Command(0, <<>>)]

NotWaited == [kind |-> "", code |-> 0]

\* no call of wait_for_job_completion is modelled
NoWaiting == job = NoJob /\ waited = NotWaited

InitWith(worlds, dry_runs) ==
  /\ \E w \in worlds : provider = w.provider /\ args = w.args
  /\ cache = <<>>
  /\ dry_run \in dry_runs
  /\ ret = NoReturn
  /\ log = <<>>
  /\ calls = 0
  /\ history = <<>>
  /\ NoSelection
  /\ NoWaiting

\* before a call of get_capacity_type: any arguments, any verification code
InitType ==
  /\ cli \in [args : CapacityArgs, verified : 0..MaxCode]
  /\ selected = NotSelected
  /\ NoWaiting
  /\ provider = <<>>
  /\ cache = <<>>
  /\ dry_run = FALSE
  /\ args = <<>>
  /\ ret = NoReturn
  /\ log = <<>>
  /\ calls = 0
  /\ history = <<>>

\* before a call of wait_for_job_completion: any answers of the cluster
InitWait ==
  /\ job \in Jobs
  /\ waited = NotWaited
  /\ NoSelection
  /\ provider = <<>>
  /\ cache = <<>>
  /\ dry_run = FALSE
  /\ args = <<>>
  /\ ret = NoReturn
  /\ log = <<>>
  /\ calls = 0
  /\ history = <<>>

Init == InitWith(HierWorlds, {FALSE})

InitRecord == InitWith(RecordWorlds, BOOLEAN)

\* ------------------------------------------------------------ actions
\* one call of assess_available_slices by a caller
Assess ==
  /\ calls < MaxCalls
  /\ LET r == assess_available_slices(
                args.reservations, args.force_sub_block_targeting, args.system,
                args.vms_per_slice, args.validate_reservations, St(cache, <<>>))
     IN /\ ret' = [caps |-> r.caps, rc |-> r.rc, exc |-> r.exc]
        /\ log' = r.st.log
        /\ cache' = r.st.cache
        /\ history' = Append(history, [provider |-> provider,
                                       ret |-> [caps |-> r.caps, rc |-> r.rc,
                                                exc |-> r.exc]])
  /\ calls' = calls + 1
  /\ UNCHANGED <<provider, dry_run, args, cli, selected, job, waited>>

\* between two calls the usage of a fetched specific reservation changes at the
\* provider: its free machines are all taken, or all released
ProviderChange ==
  /\ calls >= 1
  /\ calls < MaxCalls
  /\ \E n \in DOMAIN cache :
       /\ cache[n] = provider.describe[n]
       /\ cache[n] # None
       /\ cache[n].specific_reservation # None
       /\ LET sr == provider.describe[n].specific_reservation
              used == IF sr.in_use_count < sr.count THEN sr.count ELSE 0
          IN provider' =
               [provider EXCEPT !.describe[n].specific_reservation.in_use_count = used]
  /\ UNCHANGED <<cache, dry_run, args, ret, log, calls, history, cli, selected, job, waited>>

Next == Assess \/ ProviderChange

\* one call of get_capacity_type
GetCapacityType ==
  /\ selected = NotSelected
  /\ selected' = get_capacity_type(cli.args)
  /\ UNCHANGED <<provider, cache, dry_run, args, ret, log, calls, history, cli, job, waited>>

NextType == GetCapacityType

\* one call of wait_for_job_completion for the workload "job"
WaitForJobCompletion ==
  /\ waited = NotWaited
  /\ waited' = wait_for_job_completion("job")
  /\ UNCHANGED <<provider, cache, dry_run, args, ret, log, calls, history, cli, selected, job>>

NextWait == WaitForJobCompletion

\* the hierarchy family: lists of links over blocks and sub-blocks
Spec == Init /\ [][Next]_vars

\* the record family: one link, every record, system and execution mode
SpecRecord == InitRecord /\ [][Next]_vars

\* the capacity type family: every combination of the capacity arguments
SpecType == InitType /\ [][NextType]_vars

\* the workload family: every combination of the answers of the four commands
SpecWait == InitWait /\ [][NextWait]_vars

\* ------------------------------------------------------------ claims
\* the record of reservation r1 that the last call worked from
Seen == cache["r1"]

\* what one link yields on its own, unvalidated, in the view of the last call
Alone(link) ==
  assess_available_slices(<<link>>, args.force_sub_block_targeting, args.system,
                          args.vms_per_slice, FALSE, St(cache, <<>>))

Returned(caps, rc) == ret = [caps |-> caps, rc |-> rc, exc |-> FALSE]

\* the last call assessed reservation link r1 as a whole and r1's record has a
\* specific payload
WholeSpecific ==
  /\ calls >= 1
  /\ args.reservations = <<R1>>
  /\ ~args.force_sub_block_targeting
  /\ "r1" \in DOMAIN cache
  /\ Seen # None
  /\ Seen.specific_reservation # None

\* validation was skipped or passed
Passing ==
  \/ ~args.validate_reservations
  \/ _verify_reservation_configuration(Seen, args.system, St(cache, <<>>)).ok

\* C1: for a specific reservation assessed as a whole (reservation link,
\* flattening off, validation passing) the calculator's slice count is
\* max(0, count - in_use_count) // vms_per_slice, never negative (0 when
\* in_use_count > count), and the entry emitted carries exactly that count.
C1_SpecificSliceCount ==
  WholeSpecific =>
    LET sr == Seen.specific_reservation
        free == IF sr.count > sr.in_use_count THEN sr.count - sr.in_use_count ELSE 0
        expected == free \div args.vms_per_slice
        calc == _get_reservation_slices_count(R1, args.system, args.vms_per_slice,
                                              St(cache, <<>>))
    IN /\ calc.count = expected
       /\ calc.count >= 0
       /\ calc.rc = 0 /\ ~calc.exc
       /\ Passing /\ expected > 0 => Returned(<<ReservationCapacity(R1, expected)>>, 0)
       /\ Passing /\ expected = 0 => ret.caps = <<>> /\ ~ret.exc

\* C1 witness: a validated specific reservation with machines in use emitted
\* its entry
C1_Witness ==
  /\ WholeSpecific
  /\ args.validate_reservations
  /\ Seen.specific_reservation.in_use_count >= 1
  /\ ret.rc = 0
  /\ Len(ret.caps) = 1
  /\ ret.caps[1].available_slices >= 1

\* the last call assessed reservation link r1 as a whole and r1's record has an
\* aggregate payload
WholeAggregate ==
  /\ calls >= 1
  /\ args.reservations = <<R1>>
  /\ ~args.force_sub_block_targeting
  /\ "r1" \in DOMAIN cache
  /\ Seen # None
  /\ Seen.specific_reservation = None
  /\ Seen.aggregate_reservation # None

\* the entries of a resource list with one identifier
Typed(resources, type) ==
  LET Is(r) == r.accelerator_type = type
  IN SelectSeq(resources, Is)

\* the identifier under which r1's reserved resources match the system: the
\* project-string form before the project-number form for TPU, the bare
\* identifier for GPU
MatchedType ==
  IF args.system.accelerator_type = TPU
  THEN IF Typed(Seen.aggregate_reservation.reserved_resources, IdType) # <<>>
       THEN IdType ELSE NumberType
  ELSE GpuType

HasMatch ==
  /\ args.system.accelerator_type \in {TPU, GPU}
  /\ Typed(Seen.aggregate_reservation.reserved_resources, MatchedType) # <<>>

\* max(0, reserved - in_use) // (vms_per_slice * chips_per_vm) over the entries
\* of the matched identifier alone
ExpectedAggregate ==
  LET reserved == Typed(Seen.aggregate_reservation.reserved_resources, MatchedType)
      in_use == Typed(Seen.aggregate_reservation.in_use_resources, MatchedType)
      r == reserved[1].accelerator_count
      u == IF in_use = <<>> THEN 0 ELSE in_use[1].accelerator_count
      free == IF r > u THEN r - u ELSE 0
  IN free \div (args.vms_per_slice * args.system.chips_per_vm)

\* C2: for an aggregate reservation with a matching reserved resource the slice
\* count is max(0, reserved_count - in_use_count) // (vms_per_slice *
\* chips_per_vm), in_use_count being the count of the first in-use entry with the
\* matched identifier (0 when there is none); entries of other identifiers do not
\* change it.
C2_AggregateSliceCount ==
  WholeAggregate /\ HasMatch =>
    LET calc == _get_reservation_slices_count(R1, args.system, args.vms_per_slice,
                                              St(cache, <<>>))
    IN /\ calc.count = ExpectedAggregate
       /\ calc.rc = 0 /\ ~calc.exc
       /\ ExpectedAggregate > 0 =>
            Returned(<<ReservationCapacity(R1, ExpectedAggregate)>>, 0)
       /\ ExpectedAggregate = 0 => ret.caps = <<>> /\ ~ret.exc

\* C2 witness: chips_per_vm > 1, an in-use entry of another identifier ahead of
\* the matching one, and an entry emitted
C2_Witness ==
  /\ WholeAggregate
  /\ HasMatch
  /\ args.system.chips_per_vm >= 2
  /\ Len(Seen.aggregate_reservation.in_use_resources) = 2
  /\ Seen.aggregate_reservation.in_use_resources[1].accelerator_type = WrongType
  /\ Seen.aggregate_reservation.in_use_resources[2].accelerator_type = MatchedType
  /\ ret.rc = 0
  /\ Len(ret.caps) = 1

\* C3: a call that returns a non-zero code returns the empty list, whatever the
\* earlier links had contributed.
C3_NoPartialResults ==
  calls >= 1 /\ ~ret.exc /\ ret.rc # 0 => ret.caps = <<>>

\* C3 witness: the first of two links has capacity on its own and the call
\* failed on the second
C3_Witness ==
  /\ calls = 1
  /\ Len(args.reservations) = 2
  /\ args.validate_reservations
  /\ Alone(args.reservations[1]).rc = 0
  /\ Alone(args.reservations[1]).caps # <<>>
  /\ ret.rc # 0
  /\ ret.caps = <<>>

RECURSIVE ConcatAlone(_)
\* what the links yield one by one, concatenated in input order
ConcatAlone(links) ==
  IF links = <<>> THEN <<>>
  ELSE Alone(Head(links)).caps \o ConcatAlone(Tail(links))

NoDuplicates(xs) == \A i, j \in 1..Len(xs) : i # j => xs[i] # xs[j]

\* the indices of xs at which an element occurs for the first time
FirstOccurrences(xs) == {i \in 1..Len(xs) : \A j \in 1..(i - 1) : xs[j] # xs[i]}

\* ys consists of elements of xs, in the order of their first occurrence in xs
OrderedAs(ys, xs) ==
  /\ \A i \in 1..Len(ys) : \E k \in 1..Len(xs) : xs[k] = ys[i]
  /\ \A i, j \in 1..Len(ys) :
       i < j => \E k \in FirstOccurrences(xs) :
                  /\ xs[k] = ys[i]
                  /\ \A m \in 1..k : xs[m] # ys[j]

\* C4 as stated: a validated call that returns code zero returns a non-empty,
\* ordered, duplicate-free list, for every input list including the empty one.
C4_SuccessIsNonEmpty ==
  calls >= 1 /\ args.validate_reservations /\ ~ret.exc /\ ret.rc = 0 =>
    /\ ret.caps # <<>>
    /\ NoDuplicates(ret.caps)
    /\ OrderedAs(ret.caps, ConcatAlone(args.reservations))

\* C4 amended: the same for every non-empty input list of links.
C4_SuccessIsNonEmptyForLinks ==
  /\ calls >= 1
  /\ args.reservations # <<>>
  /\ args.validate_reservations
  /\ ~ret.exc
  /\ ret.rc = 0
  => /\ ret.caps # <<>>
     /\ NoDuplicates(ret.caps)
     /\ OrderedAs(ret.caps, ConcatAlone(args.reservations))

\* C4 witness: a validated call over two links succeeded with several entries,
\* one of which both links yield
C4_Witness ==
  /\ calls >= 1
  /\ Len(args.reservations) = 2
  /\ args.validate_reservations
  /\ ret.rc = 0
  /\ Len(ret.caps) >= 2
  /\ Len(ConcatAlone(args.reservations)) > Len(ret.caps)

\* C5: a capacity entry reached through two input paths of one call appears
\* exactly once, at the position of its first occurrence, and the order of the
\* other entries is unchanged: the result is the sequence of first occurrences
\* of what the links yield.
C5_DedupeKeepsFirst ==
  calls >= 1 /\ ~ret.exc /\ ret.rc = 0 =>
    LET all == ConcatAlone(args.reservations)
        firsts == FirstOccurrences(all)
    IN /\ Len(ret.caps) = Cardinality(firsts)
       /\ \A i \in firsts : ret.caps[Cardinality({j \in firsts : j <= i})] = all[i]

\* C5 witness: a flattened reservation link is followed by one of its blocks,
\* whose sub-blocks are not the last ones the reservation yields
C5_Witness ==
  /\ calls >= 1
  /\ args.force_sub_block_targeting
  /\ args.reservations = <<R1, B1>>
  /\ ret.rc = 0
  /\ Len(ConcatAlone(args.reservations)) > Len(ret.caps)
  /\ ret.caps[Len(ret.caps)].reservation = S23

\* the last call flattened block link b1 and the provider listed its sub-blocks
BlockFlattened ==
  /\ calls >= 1
  /\ args.reservations = <<B1>>
  /\ args.force_sub_block_targeting
  /\ provider.sub_blocks[<<"r1", "b1">>].rc = 0

\* one entry per listed sub-block of block b of r1 with
\* (count - in_use_count) // vms_per_slice > 0, in the order of the listing
ExpectedOf(b) ==
  LET listing == provider.sub_blocks[<<"r1", b>>].sub_blocks
      Fits(sb) == sb.count - sb.in_use_count >= args.vms_per_slice
      kept == SelectSeq(listing, Fits)
  IN [i \in 1..Len(kept) |->
       ReservationCapacity(
         SubBlockReservationLink(PROJECT, "r1", ZONE, b, kept[i].name),
         (kept[i].count - kept[i].in_use_count) \div args.vms_per_slice)]

ExpectedOfBlock == ExpectedOf("b1")

ExampleListing == <<MockSubBlock("s1", 4, 1), MockSubBlock("s2", 6, 1)>>

\* C6: a block link assessed with flattening on yields one entry per healthy
\* sub-block whose (count - in_use_count) // vms_per_slice is > 0, with that
\* sub-block's link and slice count, in the provider's order; sub-blocks with 0
\* slices are omitted; A(4,1), B(6,1) with vms_per_slice = 2 give [(A,1),(B,2)].
C6_BlockFlattening ==
  BlockFlattened =>
    /\ ExpectedOfBlock # <<>> => Returned(ExpectedOfBlock, 0)
    /\ ExpectedOfBlock = <<>> =>
         Returned(<<>>, IF args.validate_reservations THEN 1 ELSE 0)
    /\ /\ provider.sub_blocks[<<"r1", "b1">>].sub_blocks = ExampleListing
       /\ args.vms_per_slice = 2
       => Returned(<<ReservationCapacity(S11, 1), ReservationCapacity(S12, 2)>>, 0)

\* C6 witness: the listing A(4,1), B(6,1) was flattened with vms_per_slice = 2
C6_Witness ==
  /\ BlockFlattened
  /\ provider.sub_blocks[<<"r1", "b1">>].sub_blocks = ExampleListing
  /\ args.vms_per_slice = 2
  /\ args.validate_reservations
  /\ Len(ret.caps) = 2

\* link i of the last call yields zero entries without error and every link
\* before it is assessed without error
FirstEmptyLink(i) ==
  /\ Alone(args.reservations[i]).rc = 0
  /\ ~Alone(args.reservations[i]).exc
  /\ Alone(args.reservations[i]).caps = <<>>
  /\ \A j \in 1..(i - 1) : Alone(args.reservations[j]).rc = 0

RECURSIVE ExpectedOfBlocks(_)
\* the expected entries of the named blocks of r1, concatenated
ExpectedOfBlocks(names) ==
  IF names = <<>> THEN <<>>
  ELSE ExpectedOf(Head(names)) \o ExpectedOfBlocks(Tail(names))

\* the last call flattened reservation link r1, whose blocks were all listed
\* without error, one of them with zero entries and another with entries
FlattenedOverEmptyBlock ==
  LET names == provider.blocks["r1"].names
  IN /\ calls >= 1
     /\ args.reservations = <<R1>>
     /\ args.force_sub_block_targeting
     /\ provider.blocks["r1"].rc = 0
     /\ \A i \in 1..Len(names) : provider.sub_blocks[<<"r1", names[i]>>].rc = 0
     /\ \E i \in 1..Len(names) : ExpectedOf(names[i]) = <<>>
     /\ \E i \in 1..Len(names) : ExpectedOf(names[i]) # <<>>

\* C7: a caller-supplied (validated) link of any variant that yields zero
\* entries makes the call return ([], 1), also when other links have capacity;
\* a block with zero entries reached through the recursion of a flattened
\* reservation contributes the empty list without error.
C7_ZeroCapacity ==
  /\ calls >= 1 /\ args.validate_reservations /\ ~ret.exc
     /\ (\E i \in 1..Len(args.reservations) : FirstEmptyLink(i))
     => Returned(<<>>, 1)
  /\ FlattenedOverEmptyBlock => Returned(ExpectedOfBlocks(provider.blocks["r1"].names), 0)

\* C7 witness: the first link has capacity, the second is an empty link, and the
\* validated call returned ([], 1)
C7_Witness ==
  /\ calls >= 1
  /\ args.validate_reservations
  /\ Len(args.reservations) = 2
  /\ Alone(args.reservations[1]).caps # <<>>
  /\ FirstEmptyLink(2)
  /\ Returned(<<>>, 1)

\* the recursive case of C7 occurs: an empty block under a flattened reservation
C7_RecursionReached == FlattenedOverEmptyBlock /\ args.validate_reservations

\* the last call fetched r1 for a TPU system and r1's record has an aggregate
\* payload
TpuAggregate ==
  /\ calls >= 1
  /\ args.system.accelerator_type = TPU
  /\ "r1" \in DOMAIN cache
  /\ Seen # None
  /\ Seen.specific_reservation = None
  /\ Seen.aggregate_reservation # None

\* the number of project-number resolutions among the accessor calls
Resolutions(events) ==
  Cardinality({i \in 1..Len(events) : events[i][1] = "resolve_project_number"})

\* C8: for a TPU aggregate reservation with a reserved resource of the
\* project-string form, the project number is not resolved at any point of the
\* assessment, and the entry of the project-string form is the one matched and
\* counted.
C8_ResolverNotInvoked ==
  TpuAggregate /\ Typed(Seen.aggregate_reservation.reserved_resources, IdType) # <<>> =>
    LET m == _find_matching_accelerator_resource(Seen, args.system, St(cache, <<>>))
    IN /\ Resolutions(log) = 0
       /\ Resolutions(m.st.log) = 0
       /\ ~m.exc
       /\ m.val = Typed(Seen.aggregate_reservation.reserved_resources, IdType)[1]
       /\ args.reservations = <<R1>> /\ ~args.force_sub_block_targeting =>
            /\ ExpectedAggregate > 0 =>
                 Returned(<<ReservationCapacity(R1, ExpectedAggregate)>>, 0)
            /\ ExpectedAggregate = 0 => ret.caps = <<>> /\ ~ret.exc

\* C8 witness: the record lists the project-number form ahead of the
\* project-string form and was validated and counted
C8_Witness ==
  /\ TpuAggregate
  /\ args.reservations = <<R1>>
  /\ ~args.force_sub_block_targeting
  /\ args.validate_reservations
  /\ ~dry_run
  /\ Len(Seen.aggregate_reservation.reserved_resources) = 2
  /\ Seen.aggregate_reservation.reserved_resources[1].accelerator_type = NumberType
  /\ Seen.aggregate_reservation.reserved_resources[2].accelerator_type = IdType
  /\ ret.rc = 0
  /\ Len(ret.caps) = 1
  /\ Resolutions(log) = 0

\* C9: for a TPU aggregate reservation that matches only in the project-number
\* form, one validated assessment of the reservation resolves the project number
\* exactly once.
C9_ResolverInvokedOnce ==
  /\ TpuAggregate
  /\ args.reservations = <<R1>>
  /\ ~args.force_sub_block_targeting
  /\ args.validate_reservations
  /\ Typed(Seen.aggregate_reservation.reserved_resources, IdType) = <<>>
  /\ Typed(Seen.aggregate_reservation.reserved_resources, NumberType) # <<>>
  => Resolutions(log) = 1

\* the last call fetched r1 for a TPU or CPU system and r1's record has a
\* specific payload
MachineTyped ==
  /\ calls >= 1
  /\ args.system.accelerator_type \in {TPU, CPU}
  /\ "r1" \in DOMAIN cache
  /\ Seen # None
  /\ Seen.specific_reservation # None

\* validation passes iff the machine types are equal, and a validated call on a
\* mismatch returns ([], 1)
MachineTypeDecides ==
  LET same == Seen.specific_reservation.machine_type = args.system.gce_machine_type
      v == _verify_reservation_configuration(Seen, args.system, St(cache, <<>>))
  IN /\ ~v.exc
     /\ v.ok <=> same
     /\ args.validate_reservations /\ ~same => Returned(<<>>, 1)

\* C10 as stated: for a TPU or CPU system and a specific reservation, validation
\* passes iff machine_type equals the system's gce_machine_type; on mismatch the
\* call returns ([], 1) whatever the free count.
C10_MachineTypeIff == MachineTyped => MachineTypeDecides

\* C10 amended: the same outside dry-run mode.
C10_MachineTypeIffOutsideDryRun == MachineTyped /\ ~dry_run => MachineTypeDecides

\* C10 witness: a CPU reservation with free machines and the wrong machine type
\* was rejected
C10_Witness ==
  /\ MachineTyped
  /\ ~dry_run
  /\ args.system.accelerator_type = CPU
  /\ args.reservations = <<R1>>
  /\ ~args.force_sub_block_targeting
  /\ args.validate_reservations
  /\ Seen.specific_reservation.machine_type # args.system.gce_machine_type
  /\ Seen.specific_reservation.count - Seen.specific_reservation.in_use_count
       >= args.vms_per_slice
  /\ Returned(<<>>, 1)

\* the last call fetched r1 for a GPU system and r1's record has a specific
\* payload
GpuSpecific ==
  /\ calls >= 1
  /\ args.system.accelerator_type = GPU
  /\ "r1" \in DOMAIN cache
  /\ Seen # None
  /\ Seen.specific_reservation # None

\* the last call fetched r1 for a GPU system and r1's record has an aggregate
\* payload
GpuAggregate ==
  /\ calls >= 1
  /\ args.system.accelerator_type = GPU
  /\ "r1" \in DOMAIN cache
  /\ Seen # None
  /\ Seen.specific_reservation = None
  /\ Seen.aggregate_reservation # None

\* some guest accelerator of r1 carries exactly the system's identifier
GuestListed ==
  Typed(Seen.specific_reservation.guest_accelerators, GpuType) # <<>>

\* validation passes iff a guest accelerator carries the identifier, and a
\* validated call without one returns ([], 1)
GuestDecides ==
  LET v == _verify_reservation_configuration(Seen, args.system, St(cache, <<>>))
  IN /\ ~v.exc
     /\ v.ok <=> GuestListed
     /\ args.validate_reservations /\ ~GuestListed => Returned(<<>>, 1)

\* the matcher returns the first reserved resource with the bare identifier (None
\* when there is none) and the project number is never resolved
BareDecides ==
  LET m == _find_matching_accelerator_resource(Seen, args.system, St(cache, <<>>))
      bare == Typed(Seen.aggregate_reservation.reserved_resources, GpuType)
  IN /\ ~m.exc
     /\ m.val = IF bare = <<>> THEN None ELSE bare[1]
     /\ Resolutions(m.st.log) = 0
     /\ Resolutions(log) = 0

\* C11 as stated: for a GPU system a specific reservation validates iff at least
\* one guest accelerator's identifier equals the system's accelerator identifier
\* (machine type, project and zone play no part), and an aggregate reservation
\* matches on the bare identifier without the project number being resolved.
C11_GpuIdentifierOnly ==
  /\ GpuSpecific => GuestDecides
  /\ GpuAggregate => BareDecides

\* C11 amended: the same, the specific part outside dry-run mode.
C11_GpuIdentifierOnlyOutsideDryRun ==
  /\ GpuSpecific /\ ~dry_run => GuestDecides
  /\ GpuAggregate => BareDecides

\* C11 witness: a GPU reservation of another machine type than the system's
\* was validated by its second guest accelerator and counted
C11_Witness ==
  /\ GpuSpecific
  /\ ~dry_run
  /\ args.reservations = <<R1>>
  /\ ~args.force_sub_block_targeting
  /\ args.validate_reservations
  /\ Seen.specific_reservation.machine_type # args.system.gce_machine_type
  /\ Len(Seen.specific_reservation.guest_accelerators) = 2
  /\ Seen.specific_reservation.guest_accelerators[2].accelerator_type = GpuType
  /\ ret.rc = 0
  /\ Len(ret.caps) = 1

\* a GPU aggregate reservation whose only reserved resource is qualified by
\* project and zone was rejected without a resolution
C11_QualifiedRejected ==
  /\ GpuAggregate
  /\ ~dry_run
  /\ args.validate_reservations
  /\ Seen.aggregate_reservation.reserved_resources[1].accelerator_type = QualifiedGpuType
  /\ Returned(<<>>, 1)
  /\ Resolutions(log) = 0

\* the last call fetched r1 for a TPU or GPU system and r1's record has an
\* aggregate payload
AggregateSeen ==
  /\ calls >= 1
  /\ args.system.accelerator_type \in {TPU, GPU}
  /\ "r1" \in DOMAIN cache
  /\ Seen # None
  /\ Seen.specific_reservation = None
  /\ Seen.aggregate_reservation # None

\* no reserved resource of r1 carries the system's identifier: for TPU neither
\* the project-string form nor the project-number form, for GPU not the bare one
NoneReserved ==
  LET reserved == Seen.aggregate_reservation.reserved_resources
  IN IF args.system.accelerator_type = TPU
     THEN /\ Typed(reserved, TargetType(PROJECT, ZONE,
                                       args.system.reservation_accelerator_type)) = <<>>
          /\ Typed(reserved, TargetType(PROJECT_NUMBER, ZONE,
                                       args.system.reservation_accelerator_type)) = <<>>
     ELSE Typed(reserved, Bare(args.system.reservation_accelerator_type)) = <<>>

\* validation fails exactly when no reserved resource matches, and a validated
\* call then returns ([], 1)
MatchDecides ==
  LET v == _verify_reservation_configuration(Seen, args.system, St(cache, <<>>))
  IN /\ ~v.exc
     /\ ~v.ok <=> NoneReserved
     /\ args.validate_reservations /\ NoneReserved => Returned(<<>>, 1)

C12_NumberFormPasses ==
  /\ AggregateSeen
  /\ ~dry_run
  /\ args.system.accelerator_type = TPU
  /\ args.validate_reservations
  /\ Len(Seen.aggregate_reservation.reserved_resources) = 2
  /\ Seen.aggregate_reservation.reserved_resources[2].accelerator_type = NumberType
  /\ ret.rc = 0
  /\ Len(ret.caps) = 1

\* the last call flattened reservation link r1, whose block list came without
\* error and is not empty
ReservationFlattened ==
  /\ calls >= 1
  /\ args.reservations = <<R1>>
  /\ args.force_sub_block_targeting
  /\ provider.blocks["r1"].rc = 0
  /\ provider.blocks["r1"].names # <<>>

\* the listings of all blocks of r1 came without error
BlocksListed ==
  \A i \in 1..Len(provider.blocks["r1"].names) :
     provider.sub_blocks[<<"r1", provider.blocks["r1"].names[i]>>].rc = 0

\* the accessor calls of the last call without the fetches of records
Steps ==
  LET NotDescribe(e) == e[1] \notin {"describe", "recurse", "leave"}
  IN SelectSeq(log, NotDescribe)

\* what a flattened r1 asks of the provider: its validation when caller-supplied,
\* one block list, then one sub-block listing per block in block-list order
ExpectedSteps ==
  LET names == provider.blocks["r1"].names
  IN (IF args.validate_reservations THEN <<(<<"validate", "r1", "", "">>)>> ELSE <<>>)
     \o <<(<<"list_blocks", "r1">>)>>
     \o [i \in 1..Len(names) |-> <<"list_healthy_sub_blocks", "r1", names[i], "">>]

\* C13: a reservation link with flattening requested and a non-empty block list
\* is expanded by one recursive call over its block links without validation;
\* it contributes the concatenation, in block-list order, of each block's
\* sub-block entries with slices > 0, and no entry carries the reservation link
\* or a block link.
C13_ReservationFlattening ==
  ReservationFlattened /\ BlocksListed =>
    LET expected == ExpectedOfBlocks(provider.blocks["r1"].names)
    IN /\ expected # <<>> => Returned(expected, 0)
       /\ expected = <<>> => Returned(<<>>, IF args.validate_reservations THEN 1 ELSE 0)
       /\ \A i \in 1..Len(ret.caps) : ret.caps[i].reservation.kind = "sub_block"
       /\ Steps = ExpectedSteps

\* C13 witness: a validated r1 with blocks b1 and b2 was flattened into entries
\* of both blocks, b1's first
C13_Witness ==
  /\ ReservationFlattened
  /\ BlocksListed
  /\ args.validate_reservations
  /\ provider.blocks["r1"].names = <<"b1", "b2">>
  /\ Len(ret.caps) >= 2
  /\ ret.caps[1].reservation.block_name = "b1"
  /\ ret.caps[Len(ret.caps)].reservation.block_name = "b2"
  /\ ret.rc = 0

\* the first call flattened reservation link r1, whose block list came without
\* error and is empty
NoBlocksFlattened ==
  /\ calls = 1
  /\ args.reservations = <<R1>>
  /\ args.force_sub_block_targeting
  /\ provider.blocks["r1"] = [rc |-> 0, names |-> <<>>]

\* max(0, count - in_use_count) // vms_per_slice of r1's record at the provider
WholeCount ==
  LET sr == provider.describe["r1"].specific_reservation
      free == IF sr.count > sr.in_use_count THEN sr.count - sr.in_use_count ELSE 0
  IN free \div args.vms_per_slice

\* C14 as stated: a reservation link with flattening requested whose block list
\* is empty is accounted as a whole: one entry for the reservation link is
\* emitted iff the record's slice count is > 0.
C14_NoBlocksFallsThrough ==
  NoBlocksFlattened =>
    /\ WholeCount > 0 => Returned(<<ReservationCapacity(R1, WholeCount)>>, 0)
    /\ WholeCount = 0 => ret.caps = <<>>

\* C14 amended: a reservation link with flattening requested whose block list
\* is empty contributes no entry, whatever the record's slice count, and the
\* record is not counted: the call returns ([], 1) when the link is
\* caller-supplied (validated) and ([], 0) otherwise.
C14_NoBlocksNoEntry ==
  NoBlocksFlattened =>
    /\ Returned(<<>>, IF args.validate_reservations THEN 1 ELSE 0)
    /\ Steps = (IF args.validate_reservations
                THEN <<(<<"validate", "r1", "", "">>)>> ELSE <<>>)
               \o <<(<<"list_blocks", "r1">>)>>

\* C14 witness: a validated r1 with a free machine and no blocks was flattened
\* and returned ([], 1)
C14_Witness ==
  /\ NoBlocksFlattened
  /\ args.validate_reservations
  /\ WholeCount > 0
  /\ Returned(<<>>, 1)

\* the last call assessed sub-block link s1 of block b1 alone
SubBlockAssessed ==
  /\ calls >= 1
  /\ args.reservations = <<S11>>

\* the records the provider lists for sub-block s1 of block b1
RecordsOfS11 ==
  LET Named(sb) == sb.name = "s1"
  IN SelectSeq(provider.sub_blocks[<<"r1", "b1">>].sub_blocks, Named)

FetchOfS11 == provider.sub_blocks[<<"r1", "b1">>].rc

\* C15 as stated: for a sub-block link a health/usage fetch that resolves to
\* zero records or to more than one record is a failure, with and without
\* validation, never a successful result.
C15_ExactlyOneRecord ==
  SubBlockAssessed /\ FetchOfS11 = 0 /\ Len(RecordsOfS11) # 1 => ret.exc \/ ret.rc # 0

\* C15 amended: a failed fetch makes the call return ([], 1) and more than one
\* record raises, with and without validation; zero records are a successful
\* zero-capacity result of the sub-block step, ([], 0) without validation, and
\* ([], 1) by the no-capacity rule when the link is caller-supplied.
C15_ZeroRecordsIsZeroCapacity ==
  SubBlockAssessed =>
    LET step == _get_available_slices_in_sub_block(S11, args.vms_per_slice,
                                                   St(cache, <<>>))
    IN /\ FetchOfS11 # 0 => Returned(<<>>, 1)
       /\ FetchOfS11 = 0 /\ Len(RecordsOfS11) > 1 => ret.exc /\ step.exc
       /\ FetchOfS11 = 0 /\ RecordsOfS11 = <<>> =>
            /\ step.slices = 0 /\ step.rc = 0 /\ ~step.exc
            /\ Returned(<<>>, IF args.validate_reservations THEN 1 ELSE 0)

\* C15 witness: an unvalidated sub-block link whose fetch resolved to zero
\* records returned ([], 0)
C15_Witness ==
  /\ SubBlockAssessed
  /\ ~args.validate_reservations
  /\ FetchOfS11 = 0
  /\ RecordsOfS11 = <<>>
  /\ Returned(<<>>, 0)

\* a fetch that resolved to two records raised
C15_TwoRecordsRaise ==
  /\ SubBlockAssessed
  /\ FetchOfS11 = 0
  /\ Len(RecordsOfS11) = 2
  /\ ret.exc

\* the last call assessed block link b1 alone with flattening off, and the
\* record of its reservation has a payload the system can count
BlockWhole ==
  /\ calls >= 1
  /\ args.reservations = <<B1>>
  /\ ~args.force_sub_block_targeting
  /\ "r1" \in DOMAIN cache
  /\ Seen # None
  /\ \/ Seen.specific_reservation # None
     \/ Seen.aggregate_reservation # None /\ HasMatch

\* the slice count of the reservation record: of its specific payload, or of
\* its matching aggregate resource
CountOfRecord ==
  IF Seen.specific_reservation # None
  THEN LET sr == Seen.specific_reservation
           free == IF sr.count > sr.in_use_count THEN sr.count - sr.in_use_count ELSE 0
       IN free \div args.vms_per_slice
  ELSE ExpectedAggregate

\* the listings of blocks and sub-blocks among the accessor calls
Listed(events) ==
  Cardinality({i \in 1..Len(events) :
                 events[i][1] \in {"list_blocks", "list_healthy_sub_blocks"}})

\* C16: a block link assessed with flattening off is accounted as a whole
\* reservation: no sub-block listing is fetched, the slice count is that of the
\* reservation record, and one entry, carrying the block link itself, is emitted
\* iff the count is > 0.
C16_BlockWholeAccounting ==
  BlockWhole =>
    /\ Listed(log) = 0
    /\ Passing /\ CountOfRecord > 0 =>
         Returned(<<ReservationCapacity(B1, CountOfRecord)>>, 0)
    /\ Passing /\ CountOfRecord = 0 =>
         Returned(<<>>, IF args.validate_reservations THEN 1 ELSE 0)

\* C16 witness: a validated block link of a specific reservation with machines
\* in use emitted its own entry
C16_Witness ==
  /\ BlockWhole
  /\ args.validate_reservations
  /\ Seen.specific_reservation # None
  /\ Seen.specific_reservation.in_use_count >= 1
  /\ ret.rc = 0
  /\ Len(ret.caps) = 1
  /\ ret.caps[1].reservation = B1
  /\ Listed(log) = 0

\* the last call was made by a caller (validated) and the fetched record of r1
\* has neither a specific nor an aggregate payload
NoPayload ==
  /\ calls >= 1
  /\ args.validate_reservations
  /\ "r1" \in DOMAIN cache
  /\ Seen # None
  /\ Seen.specific_reservation = None
  /\ Seen.aggregate_reservation = None

\* C17: a caller-supplied link whose reservation record has neither a specific
\* nor an aggregate payload never yields a successful assessment: for every link
\* variant and either flattening setting the call returns a non-zero code and
\* the empty list.
C17_NoPayloadNeverSucceeds ==
  NoPayload => ~ret.exc /\ ret.rc # 0 /\ ret.caps = <<>>

\* without flattening a record without payload counts 0 slices and the
\* validated call returns ([], 1)
C17_NoPayloadWholeFails ==
  NoPayload /\ ~args.force_sub_block_targeting => Returned(<<>>, 1)

\* C18: two calls with identical links, flags, system and vms_per_slice against
\* an unchanged provider state return the same list in the same order and the
\* same code.
C18_Idempotence ==
  \A i \in 1..Len(history) : \A j \in 1..Len(history) :
     history[i].provider = history[j].provider => history[i].ret = history[j].ret

\* C18 witness: two calls over two links were made against the same provider
\* state and both returned two entries
C18_Witness ==
  /\ Len(history) = 2
  /\ history[1].provider = history[2].provider
  /\ Len(args.reservations) = 2
  /\ history[1].ret.rc = 0
  /\ Len(history[2].ret.caps) = 2

\* what a call with the arguments of the behaviour returns when every record
\* is fetched from the provider as it is now
Refetched ==
  LET r == assess_available_slices(
             args.reservations, args.force_sub_block_targeting, args.system,
             args.vms_per_slice, args.validate_reservations, St(<<>>, <<>>))
  IN [caps |-> r.caps, rc |-> r.rc, exc |-> r.exc]

\* C19: the memo of fetched reservations does not outlive one call: when the
\* provider's record of a reservation changed between two calls, the second
\* call computes its result from the new record.
C19_MemoEndsWithCall ==
  /\ Len(history) >= 2
  /\ history[Len(history)].provider # history[Len(history) - 1].provider
  /\ provider = history[Len(history)].provider
  => ret = Refetched

\* get_capacity_type has returned
Selected == selected # NotSelected

\* the capacity types the arguments set, in the order they are examined
TypesSet ==
  (IF cli.args.on_demand THEN <<ON_DEMAND>> ELSE <<>>)
  \o (IF cli.args.reservation # "" THEN <<RESERVATION>> ELSE <<>>)
  \o (IF cli.args.spot THEN <<SPOT>> ELSE <<>>)
  \o (IF cli.args.flex THEN <<FLEX_START>> ELSE <<>>)

\* the reservations named by the arguments failed verification
VerificationFailed == cli.args.reservation # "" /\ cli.verified # 0

C20_FailedVerification ==
  /\ Selected
  /\ cli.args.on_demand
  /\ cli.args.flex
  /\ VerificationFailed
  /\ cli.verified = MaxCode
  /\ selected = [capacity_type |-> ON_DEMAND, return_code |-> MaxCode]

\* wait_for_job_completion has ended
Waited == waited # NotWaited

\* the steps of wait_for_job_completion that are reached and succeed
Exists == job.list.return_code = 0 /\ job.list.return_value[Len(job.list.return_value)] = "job"
Named == Exists /\ job.name.return_code = 0
Finished == Named /\ job.wait.return_code = 0
StatusFetched == Finished /\ job.status.return_code = 0

\* the wait command was run, failed, and its output says 'timed out'
TimedOut ==
  Named /\ job.wait.return_code # 0 /\ job.wait.return_value = <<"error:", "timed", "out", "waiting">>

\* C21: wait_for_job_completion returns 0 only after the existence check, name
\* lookup, wait and status query all succeeded with status 'Completed', 124
\* exactly when the wait command fails with 'timed out' in its output, 125 when
\* the status is fetched and is not 'Completed', and 1 for every other failure.
C21_WaitCodes ==
  Waited =>
    /\ waited.kind = "return"
    /\ waited.code = IF StatusFetched /\ job.status.return_value = <<"Completed">> THEN 0
                     ELSE IF TimedOut THEN 124
                     ELSE IF StatusFetched THEN 125
                     ELSE 1

\* the part of C21 on 0, 124 and 125, and a missing workload returning 1
C21_SuccessTimeoutUnsuccessful ==
  Waited =>
    /\ StatusFetched /\ job.status.return_value = <<"Completed">> => waited = Returns(0)
    /\ TimedOut => waited = Returns(124)
    /\ StatusFetched /\ job.status.return_value # <<"Completed">> => waited = Returns(125)
    /\ job.list.return_code = 0 /\ ~Exists => waited = Returns(1)
    /\ waited.code \in {0, 124, 125} =>
         StatusFetched \/ TimedOut

\* a failed name lookup returned the code of its command
C21_LookupCodeReturned ==
  /\ Waited
  /\ Exists
  /\ job.name.return_code = MaxCode
  /\ waited = Returns(MaxCode)

\* the positions of the validator's invocations in the accessor log of the last
\* call
Validations == {i \in 1..Len(log) : log[i][1] = "validate"}

\* the number of validator invocations before position j of the log
ValidatedBefore(j) == Cardinality({i \in Validations : i < j})

\* the "validate" event of a caller-supplied link
ValidationOf(link) == <<"validate", link.name, link.block_name, link.sub_block_name>>

\* C22: validation runs at most once per caller-supplied link and never for a
\* link synthesized during flattening: the invocations of the validator in one
\* call are at most as many as the caller's links (none with validation off),
\* the k-th invocation is for the k-th link of the caller, and every block or
\* sub-block listing is fetched after the validation of the caller's link it is
\* fetched for.
C22_ValidationPerTopLevelLink ==
  calls >= 1 =>
    /\ Cardinality(Validations) <= Len(args.reservations)
    /\ ~args.validate_reservations => Validations = {}
    /\ \A j \in Validations :
         /\ ValidatedBefore(j) + 1 <= Len(args.reservations)
         /\ log[j] = ValidationOf(args.reservations[ValidatedBefore(j) + 1])
    /\ args.validate_reservations =>
         \A j \in 1..Len(log) :
            log[j][1] \in {"list_blocks", "list_healthy_sub_blocks"} =>
              /\ ValidatedBefore(j) >= 1
              /\ ValidatedBefore(j) <= Len(args.reservations)
              /\ log[j][2] = args.reservations[ValidatedBefore(j)].name

\* a validated reservation link was flattened over two blocks: one validation,
\* three listings
C22_Witness ==
  /\ calls >= 1
  /\ args.validate_reservations
  /\ args.force_sub_block_targeting
  /\ args.reservations = <<R1>>
  /\ Cardinality(Validations) = 1
  /\ Listed(log) = 3
  /\ ret.rc = 0
  /\ ret.caps # <<>>

\* the provider still answers as it did at the only call made so far
OnlyCall == calls = 1 /\ history[1].provider = provider

\* what a call over the first k links of the last call does, from a cleared
\* cache
Prefix(k) ==
  assess_available_slices(SubSeq(args.reservations, 1, k), args.force_sub_block_targeting,
                          args.system, args.vms_per_slice, args.validate_reservations,
                          St(<<>>, <<>>))

\* the call over the first k links ends in a failure code
PrefixFails(k) == ~Prefix(k).exc /\ Prefix(k).rc # 0

IsPrefix(s, t) == Len(s) <= Len(t) /\ SubSeq(t, 1, Len(s)) = s

\* the last call returned a failure code
Failure == calls >= 1 /\ ~ret.exc /\ ret.rc # 0

\* the last call flattened r1 first, and the listing of its first block failed
RecursionFailed ==
  /\ OnlyCall
  /\ args.force_sub_block_targeting
  /\ args.reservations # <<>>
  /\ args.reservations[1] = R1
  /\ provider.blocks["r1"].rc = 0
  /\ provider.blocks["r1"].names # <<>>
  /\ provider.sub_blocks[<<"r1", provider.blocks["r1"].names[1]>>].rc # 0

\* C23: fail-fast. Links are processed in input order: the accessor operations
\* of a call begin with those of the call over any shorter prefix of its links.
\* A failed call performs exactly the accessor operations of the call over the
\* links up to the first failing one, none for any later link, and returns that
\* link's code with an empty list; a failed listing inside the recursive block
\* expansion ends the outer call with the listing's code, no later block being
\* listed.
C23_FailFast ==
  /\ OnlyCall /\ ~ret.exc =>
       \A k \in 0..Len(args.reservations) :
          (\A j \in 0..(k - 1) : ~Prefix(j).exc /\ Prefix(j).rc = 0) =>
            IsPrefix(Prefix(k).st.log, log)
  /\ OnlyCall /\ Failure =>
       /\ ret.caps = <<>>
       /\ \E k \in 1..Len(args.reservations) :
            /\ PrefixFails(k)
            /\ \A j \in 0..(k - 1) : ~Prefix(j).exc /\ Prefix(j).rc = 0
            /\ log = Prefix(k).st.log
            /\ ret.rc = Prefix(k).rc
  /\ RecursionFailed =>
       /\ Returned(<<>>, provider.sub_blocks[<<"r1", provider.blocks["r1"].names[1]>>].rc)
       /\ Steps = (IF args.validate_reservations
                   THEN <<(<<"validate", "r1", "", "">>)>> ELSE <<>>)
                  \o <<(<<"list_blocks", "r1">>),
                       (<<"list_healthy_sub_blocks", "r1", provider.blocks["r1"].names[1], "">>)>>

\* the first of two links failed and the second, a reservation of another name,
\* was never touched
C23_Witness ==
  /\ OnlyCall
  /\ Failure
  /\ Len(args.reservations) = 2
  /\ args.reservations[2] = R2
  /\ PrefixFails(1)
  /\ provider.describe["r2"] # None
  /\ \A i \in 1..Len(log) : log[i][2] # "r2"

\* the listing of the first of two blocks failed inside the recursion
C23_RecursionAborted ==
  /\ RecursionFailed
  /\ Len(provider.blocks["r1"].names) = 2
  /\ Len(args.reservations) = 2
  /\ ret.rc = 2

\* C24: the matcher, the validator and the slice-count calculator never raise
\* past their boundary: for the record fetched by the last call and the system
\* of the call each of them returns a value or a code, and so the call itself
\* returns.
C24_NeverRaise ==
  calls >= 1 /\ "r1" \in DOMAIN cache /\ Seen # None =>
    /\ ~_find_matching_accelerator_resource(Seen, args.system, St(cache, <<>>)).exc
    /\ ~_verify_reservation_configuration(Seen, args.system, St(cache, <<>>)).exc
    /\ ~_get_reservation_slices_count(args.reservations[1], args.system,
                                      args.vms_per_slice, St(cache, <<>>)).exc
    /\ ~ret.exc

\* an unvalidated call raised on a TPU aggregate reservation none of whose
\* reserved resources matches the system
C24_AssertionFails ==
  /\ calls >= 1
  /\ ~dry_run
  /\ ~args.validate_reservations
  /\ ~args.force_sub_block_targeting
  /\ args.system.accelerator_type = TPU
  /\ AggregateSeen
  /\ Seen.aggregate_reservation.reserved_resources = <<AcceleratorResource(WrongType, Chips)>>
  /\ ret.exc

\* how deep inside nested calls of assess_available_slices the event at position
\* j of the log happened: re-entries before j that had not ended
Depth(j) ==
  Cardinality({i \in 1..(j - 1) : log[i][1] = "recurse"})
  - Cardinality({i \in 1..(j - 1) : log[i][1] = "leave"})

\* the positions of the log where assess_available_slices re-enters itself
Reentries == {j \in 1..Len(log) : log[j][1] = "recurse"}

\* some link of the caller is the reservation link named n
TopLevelReservation(n) ==
  \E i \in 1..Len(args.reservations) :
     args.reservations[i].kind = "reservation" /\ args.reservations[i].name = n

\* C25: every call of assess_available_slices terminates, and it re-enters
\* itself at most one level deep: a re-entry happens only at the top level, for
\* a reservation link of the caller with flattening requested, right after its
\* non-empty block list was fetched; inside the nested call every provider
\* operation is the sub-block listing of a block link: no block list is fetched,
\* nothing is validated, and there is no further re-entry.
C25_RecursionBounded ==
  /\ Len(history) = calls
  /\ calls >= 1 =>
       /\ \A j \in 1..Len(log) :
            /\ Depth(j) \in {0, 1}
            /\ log[j][1] = "recurse" =>
                 /\ Depth(j) = 0
                 /\ args.force_sub_block_targeting
                 /\ TopLevelReservation(log[j][2])
                 /\ j > 1
                 /\ log[j - 1] = <<"list_blocks", log[j][2]>>
                 /\ provider.blocks[log[j][2]] \in
                      {[rc |-> 0, names |-> <<"b1">>], [rc |-> 0, names |-> <<"b1", "b2">>]}
            /\ log[j][1] = "list_blocks" => Depth(j) = 0
            /\ Depth(j) = 1 /\ log[j][1] # "leave" =>
                 /\ log[j][1] = "list_healthy_sub_blocks"
                 /\ log[j][3] \in {"b1", "b2"}
                 /\ log[j][4] = ""
       /\ Depth(Len(log) + 1) = 0

\* the last call re-entered itself twice, once for each of two reservation
\* links, and the nested calls listed two blocks each
C25_Witness ==
  /\ calls >= 1
  /\ Cardinality(Reentries) = 2
  /\ Listed(log) = 6
  /\ ret.rc = 0

\* C26: under dry run the validator returns Ok for every reservation record and
\* system, raising nothing and calling no accessor (no project-number
\* resolution); a validated call on a specific reservation is then decided by
\* the counts alone, whatever the machine type or guest accelerators, so a
\* hardware mismatch is never reported.
C26_DryRunValidatorOk ==
  calls >= 1 /\ dry_run /\ "r1" \in DOMAIN cache /\ Seen # None =>
    /\ _verify_reservation_configuration(Seen, args.system, St(cache, <<>>))
         = [ok |-> TRUE, exc |-> FALSE, st |-> St(cache, <<>>)]
    /\ WholeSpecific /\ args.validate_reservations =>
         LET sr == Seen.specific_reservation
             free == IF sr.count > sr.in_use_count THEN sr.count - sr.in_use_count ELSE 0
             expected == free \div args.vms_per_slice
         IN IF expected > 0
            THEN Returned(<<ReservationCapacity(R1, expected)>>, 0)
            ELSE Returned(<<>>, 1)

\* a validated dry-run call succeeded on a specific reservation of the wrong
\* machine type
C26_Witness ==
  /\ dry_run
  /\ WholeSpecific
  /\ args.validate_reservations
  /\ args.system.accelerator_type = TPU
  /\ Seen.specific_reservation.machine_type # args.system.gce_machine_type
  /\ ret.rc = 0
  /\ ret.caps # <<>>

\* max(0, count - in_use_count) // vms_per_slice of a listed sub-block
ClampedSlices(sb) ==
  (IF sb.count > sb.in_use_count THEN sb.count - sb.in_use_count ELSE 0)
    \div args.vms_per_slice

\* the entries of the sub-blocks listed for block b1 whose clamped slice count is
\* > 0, each with that count, in the order of the listing
ClampedEntriesOfBlock ==
  LET Free(sb) == ClampedSlices(sb) > 0
      kept == SelectSeq(provider.sub_blocks[<<"r1", "b1">>].sub_blocks, Free)
  IN [i \in 1..Len(kept) |->
       ReservationCapacity(SubBlockReservationLink(PROJECT, "r1", ZONE, "b1", kept[i].name),
                           ClampedSlices(kept[i]))]

\* C27: sub-block accounting agrees with the formula of specific reservations.
\* For a sub-block link with one listed record, and for each sub-block of a
\* flattened block, an entry is emitted iff
\* max(0, count - in_use_count) // vms_per_slice > 0 and carries exactly that
\* value; a sub-block with in_use_count > count yields no entry; no entry has a
\* slice count below 1.
C27_SubBlockAccounting ==
  /\ SubBlockAssessed /\ FetchOfS11 = 0 /\ Len(RecordsOfS11) = 1 =>
       IF ClampedSlices(RecordsOfS11[1]) > 0
       THEN Returned(<<ReservationCapacity(S11, ClampedSlices(RecordsOfS11[1]))>>, 0)
       ELSE Returned(<<>>, IF args.validate_reservations THEN 1 ELSE 0)
  /\ BlockFlattened =>
       IF ClampedEntriesOfBlock # <<>>
       THEN Returned(ClampedEntriesOfBlock, 0)
       ELSE Returned(<<>>, IF args.validate_reservations THEN 1 ELSE 0)
  /\ \A i \in 1..Len(ret.caps) : ret.caps[i].available_slices >= 1

\* an over-used sub-block (in_use_count > count) reached through its own link
\* yielded no entry
C27_Witness ==
  /\ SubBlockAssessed
  /\ ~args.validate_reservations
  /\ FetchOfS11 = 0
  /\ Len(RecordsOfS11) = 1
  /\ RecordsOfS11[1].in_use_count > RecordsOfS11[1].count
  /\ Returned(<<>>, 0)

\* a flattened block listed an over-used sub-block and a free one: one entry
C27_OverUsedOmitted ==
  /\ BlockFlattened
  /\ Len(provider.sub_blocks[<<"r1", "b1">>].sub_blocks) = 2
  /\ provider.sub_blocks[<<"r1", "b1">>].sub_blocks[1].in_use_count
       > provider.sub_blocks[<<"r1", "b1">>].sub_blocks[1].count
  /\ Len(ret.caps) = 1
  /\ ret.rc = 0

\* the last call returned a list and code 0
Success == calls >= 1 /\ ~ret.exc /\ ret.rc = 0

\* C28: with flattening requested every entry of a successful result carries a
\* sub-block link and at least one available slice; no reservation link and no
\* block link appears in the output, whatever variants of links the caller
\* supplied.
C28_FlattenedEntriesAreSubBlocks ==
  Success /\ args.force_sub_block_targeting =>
    \A i \in 1..Len(ret.caps) :
       /\ ret.caps[i].reservation.kind = "sub_block"
       /\ ret.caps[i].reservation.block_name # ""
       /\ ret.caps[i].reservation.sub_block_name # ""
       /\ ret.caps[i].available_slices >= 1

\* a flattened call over a reservation link and a sub-block link succeeded with
\* entries of two blocks
C28_Witness ==
  /\ Success
  /\ args.force_sub_block_targeting
  /\ args.reservations = <<R1, S11>>
  /\ Len(ret.caps) >= 2
  /\ \E i \in 1..Len(ret.caps) : ret.caps[i].reservation.block_name = "b2"

\* the links of the entries of the last result, in order
LinksReturned == [i \in 1..Len(ret.caps) |-> ret.caps[i].reservation]

\* C29: with flattening off and validation on, a successful result has exactly
\* one entry per distinct link of the input: every distinct input link has an
\* entry, every entry carries an input link unchanged with at least one
\* available slice, no link occurs twice, and the entries are in the order of
\* the links' first occurrence in the input.
C29_OneEntryPerDistinctLink ==
  Success /\ ~args.force_sub_block_targeting /\ args.validate_reservations =>
    /\ Len(ret.caps) = Cardinality(FirstOccurrences(args.reservations))
    /\ NoDuplicates(LinksReturned)
    /\ OrderedAs(LinksReturned, args.reservations)
    /\ \A k \in 1..Len(args.reservations) :
         \E i \in 1..Len(ret.caps) : ret.caps[i].reservation = args.reservations[k]
    /\ \A i \in 1..Len(ret.caps) : ret.caps[i].available_slices >= 1

\* a validated call without flattening over the same block link twice returned
\* one entry
C29_Witness ==
  /\ Success
  /\ ~args.force_sub_block_targeting
  /\ args.validate_reservations
  /\ args.reservations = <<B1, B1>>
  /\ Len(ret.caps) = 1
  /\ ret.caps[1].reservation = B1

\* two distinct links returned two entries in input order
C29_TwoLinksInOrder ==
  /\ Success
  /\ ~args.force_sub_block_targeting
  /\ args.validate_reservations
  /\ args.reservations = <<S11, R2>>
  /\ LinksReturned = <<S11, R2>>

\* the last call was validated outside dry run and fetched a record of r1
ValidatedRecord ==
  /\ calls >= 1
  /\ args.validate_reservations
  /\ ~dry_run
  /\ "r1" \in DOMAIN cache
  /\ Seen # None

\* the record has only an aggregate payload and the matcher finds no resource in
\* it for the system of the call
AggregateWithoutMatch ==
  /\ Seen.specific_reservation = None
  /\ Seen.aggregate_reservation # None
  /\ ~_find_matching_accelerator_resource(Seen, args.system, St(cache, <<>>)).exc
  /\ _find_matching_accelerator_resource(Seen, args.system, St(cache, <<>>)).val = None

\* C30: in a call with validation on and dry run off, the validator and the
\* calculator reading the same record select the same payload, and the
\* calculator's assertion on the matching resource never fails: an aggregate
\* reservation without a matching resource is rejected by the validator with
\* ([], 1) before the calculator runs, and whenever the validator passes the
\* calculator returns a count for that record without raising.
C30_ValidatedNeverAsserts ==
  ValidatedRecord =>
    /\ AggregateWithoutMatch =>
         /\ ~_verify_reservation_configuration(Seen, args.system, St(cache, <<>>)).ok
         /\ Returned(<<>>, 1)
    /\ /\ ~_verify_reservation_configuration(Seen, args.system, St(cache, <<>>)).exc
       /\ _verify_reservation_configuration(Seen, args.system, St(cache, <<>>)).ok
       => /\ ~_get_reservation_slices_count(args.reservations[1], args.system,
                                            args.vms_per_slice, St(cache, <<>>)).exc
          /\ _get_reservation_slices_count(args.reservations[1], args.system,
                                           args.vms_per_slice, St(cache, <<>>)).rc = 0
          /\ ~ret.exc
          /\ Seen.specific_reservation # None /\ ~args.force_sub_block_targeting =>
               _get_reservation_slices_count(args.reservations[1], args.system,
                                             args.vms_per_slice, St(cache, <<>>)).count
                 = Max(0, Seen.specific_reservation.count
                            - Seen.specific_reservation.in_use_count)
                     \div args.vms_per_slice
          /\ Seen.specific_reservation = None /\ Seen.aggregate_reservation # None =>
               _find_matching_accelerator_resource(Seen, args.system,
                                                   St(cache, <<>>)).val # None

\* a validated call outside dry run rejected an aggregate reservation without a
\* matching resource
C30_Witness ==
  /\ ValidatedRecord
  /\ ~args.force_sub_block_targeting
  /\ AggregateWithoutMatch
  /\ Returned(<<>>, 1)

\* a validated call passed an aggregate reservation on to the calculator, which
\* counted its matching resource
C30_AggregateCounted ==
  /\ ValidatedRecord
  /\ ~args.force_sub_block_targeting
  /\ Seen.specific_reservation = None
  /\ Seen.aggregate_reservation # None
  /\ ret.rc = 0
  /\ ret.caps # <<>>

====
